---- MODULE Spec2Model ----
(***************************************************************************)
(* Model of the Helios multi-wallet bot: the batch partitioner             *)
(* (get_batch_wallets), the wallet task runner (process_wallet_operations) *)
(* with the provider calls of HeliosOperations, the coordinator            *)
(* (process_wallet_batch: semaphore, gather, aggregation), run_batch and    *)
(* the report writer (generate_batch_report).                              *)
(***************************************************************************)
EXTENDS Integers, Sequences, FiniteSets, TLC

(***************************************************************************)
(* Bounds of the model.                                                    *)
(***************************************************************************)
MaxWallets == 7      \* wallets the partitioner is given
MaxBatches == 3      \* total_batches of the partitioner
MaxCompanions == 1   \* wallets processed beside the wallet with any provider
MaxExtra == 1        \* wallets beyond the semaphore's limit in a crowded batch
MaxStakers == 3      \* wallets of a batch in which every wallet stakes
MaxReports == 2      \* reports written by successive runs of one batch number
MaxClock == 3        \* clock ticks that pass between those runs
MaxBatchWallets == 2 \* wallets in the files of a direct process_wallet_batch call

(***************************************************************************)
(* Python floats.  A non-negative double is the set of the exponents of    *)
(* the one-bits of its binary expansion: {1} is 2.0, {0, -1} is 1.5, {} is *)
(* 0.0.  Sums and products are computed exactly and then rounded to 53     *)
(* significant bits, ties to even, as IEEE 754 binary64 does (the model's  *)
(* values stay far from overflow and from the subnormal range).            *)
(***************************************************************************)
SetMax(S) == CHOOSE x \in S : \A y \in S : y <= x

\* F of the value of x.  Python computes an operand once, before the
\* operation that uses it; so does Eval, where a LET would compute x anew
\* at each use.
Eval(x, F(_)) == CHOOSE r \in {F(v) : v \in {x}} : TRUE

\* The exact sum of A and B.  A carry enters bit i when some lower bit j is
\* set in both and every bit between j and i is set in one of them; bit i
\* of the sum is the bit of A, xor the bit of B, xor that carry.
BinAdd(A, B) ==
    Eval(A, LAMBDA a : Eval(B, LAMBDA b :
        LET Carry(i) ==
                \E j \in a :
                    /\ j \in b
                    /\ j < i
                    /\ \A k \in (j + 1)..(i - 1) : k \in a \/ k \in b
        IN  {i \in a \cup b \cup {k + 1 : k \in a \cup b} :
                ((i \in a) # (i \in b)) # Carry(i)}))

\* The product of A and B: one shifted copy of A per bit of B.
RECURSIVE BinMul(_, _)
BinMul(A, B) ==
    Eval(A, LAMBDA a : Eval(B, LAMBDA bits :
        IF bits = {} THEN {}
        ELSE Eval(SetMax(bits), LAMBDA b :
                 BinAdd({x + b : x \in a}, BinMul(a, bits \ {b})))))

\* The exact product, adding one shifted copy per bit of the shorter factor.
BinProduct(A, B) ==
    IF Cardinality(A) <= Cardinality(B) THEN BinMul(B, A) ELSE BinMul(A, B)

RoundDouble(S) ==
    Eval(S, LAMBDA s :
        IF s = {} THEN {}
        ELSE Eval(SetMax(s) - 52, LAMBDA cut :
                 LET keep   == {i \in s : i >= cut}
                     half   == (cut - 1) \in s
                     sticky == \E i \in s : i < cut - 1
                 IN  IF half /\ (sticky \/ cut \in s)
                     THEN BinAdd(keep, {cut})
                     ELSE keep))

FloatAdd(A, B) == RoundDouble(BinAdd(A, B))
FloatMul(A, B) == RoundDouble(BinProduct(A, B))
FloatGt(A, B) ==
    LET D == (A \ B) \cup (B \ A)
    IN  D # {} /\ SetMax(D) \in A

\* The float literals of the source, as doubles.
Float_0_0 == {}
Float_1_0 == {0}
Float_0_8 ==
    {-1, -2, -5, -6, -9, -10, -13, -14, -17, -18, -21, -22, -25, -26, -29,
     -30, -33, -34, -37, -38, -41, -42, -45, -46, -49, -50, -52}
Float_0_1 ==
    {-4, -5, -8, -9, -12, -13, -16, -17, -20, -21, -24, -25, -28, -29, -32,
     -33, -36, -37, -40, -41, -44, -45, -48, -49, -52, -53, -55}

\* Values a provider read can return (doubles): 2.0, 4.0, 8.0, 0.05, 0.2.
Float_2_0 == {1}
Float_4_0 == {2}
Float_8_0 == {3}
Float_0_05 ==
    {-5, -6, -9, -10, -13, -14, -17, -18, -21, -22, -25, -26, -29, -30, -33,
     -34, -37, -38, -41, -42, -45, -46, -49, -50, -53, -54, -56}
Float_0_2 ==
    {-3, -4, -7, -8, -11, -12, -15, -16, -19, -20, -23, -24, -27, -28, -31,
     -32, -35, -36, -39, -40, -43, -44, -47, -48, -51, -52, -54}
Float_1_6 ==
    {0, -1, -4, -5, -8, -9, -12, -13, -16, -17, -20, -21, -24, -25, -28, -29,
     -32, -33, -36, -37, -40, -41, -44, -45, -48, -49, -51}

(***************************************************************************)
(* Python sequences.                                                       *)
(***************************************************************************)
\* s[start:stop] with Python's clamping and negative indices.
PyIndex(i, n) ==
    IF i < 0 THEN (IF i + n < 0 THEN 0 ELSE i + n)
    ELSE (IF i > n THEN n ELSE i)

PySlice(s, start, stop) ==
    LET lo == PyIndex(start, Len(s))
        hi == PyIndex(stop, Len(s))
    IN  IF lo >= hi THEN << >> ELSE SubSeq(s, lo + 1, hi)

PyMax(a, b) == IF a >= b THEN a ELSE b
PyMin(a, b) == IF a <= b THEN a ELSE b

RECURSIVE Flatten(_)
Flatten(lists) ==
    IF lists = << >> THEN << >>
    ELSE Head(lists) \o Flatten(Tail(lists))

VARIABLES
    all_wallets,     \* load_all_wallet_files(): the wallet lists, file by file
    total_batches,   \* --total-batches
    batch_number,    \* --batch
    shards,          \* the slices the sharded runs obtained, by batch number
    provider,        \* per wallet: what the chain endpoint can answer for it
    run_pc,          \* where run_batch is
    batch_wallets,   \* run_batch's batch_wallets
    task,            \* the wallet tasks gather() runs, in dispatch order
    semaphore,       \* asyncio.Semaphore(5): its value and its waiters
    results,         \* process_wallet_batch's results dict
    files,           \* reports/: file name -> payload
    clock,           \* datetime.now(), in whole seconds
    stdout,          \* the summaries print_batch_summary printed
    report_calls,    \* the generate_batch_report calls that returned: time, payload
    samples,         \* wallets/: what each sample file name holds
    force_run        \* FORCE_RUN=true in the environment of main()

vars == << all_wallets, total_batches, batch_number, shards, provider, run_pc,
           batch_wallets, task, semaphore, results, files, clock, stdout,
           report_calls, samples, force_run >>

(***************************************************************************)
(* HeliosMultiBot.get_batch_wallets                                        *)
(***************************************************************************)
\* batch_size with the division rounding down.
batch_size_floor(total_wallets, batches) ==
    PyMax(1, total_wallets \div batches)

batch_size(total_wallets, batches) ==
    PyMax(1, (total_wallets + batches - 1) \div batches)

get_batch_wallets(wallets_by_file, number, batches) ==
    LET flat_wallets  == Flatten(wallets_by_file)
        total_wallets == Len(flat_wallets)
        size          == batch_size(total_wallets, batches)
        start_idx     == (number - 1) * size
        end_idx       == PyMin(start_idx + size, total_wallets)
    IN  IF total_wallets = 0 THEN << >>
        ELSE PySlice(flat_wallets, start_idx, end_idx)

(***************************************************************************)
(* Python values.  None is the empty tuple; a transaction hash is a        *)
(* non-empty tuple, so "if stake_tx:" is stake_tx # None.  A dict key that *)
(* may be absent is a tuple of length 0 or 1.                              *)
(***************************************************************************)
None == << >>
TxHash(kind, wallet) == << kind, wallet >>

(***************************************************************************)
(* The chain endpoint.  provider[w] is what it can answer for wallet w:    *)
(* the balances and pending rewards a read can return, whether a call can  *)
(* fail with a transient error (fails), and whether an exception can       *)
(* escape into process_wallet_operations (faults).  The placeholder body   *)
(* of get_pending_rewards returns 0.0; the rewards set stands for the      *)
(* contract read it is a placeholder for, and holds 0.0.                   *)
(***************************************************************************)
AnyProvider ==
    [balances |-> {Float_1_0, Float_2_0},
     rewards  |-> {Float_0_0, Float_0_05, Float_0_2},
     fails    |-> TRUE,
     faults   |-> TRUE]

\* An unfunded wallet on a healthy endpoint.
SimpleProvider ==
    [balances |-> {Float_1_0},
     rewards  |-> {Float_0_0},
     fails    |-> FALSE,
     faults   |-> TRUE]

\* A wallet holding 2^w on a healthy endpoint.
FundedProvider(w) ==
    [balances |-> {{w}},
     rewards  |-> {Float_0_0},
     fails    |-> FALSE,
     faults   |-> FALSE]

\* @retry(stop=stop_after_attempt(3), ...)
StopAfterAttempt == 3

\* wait=wait_exponential(multiplier=1, min=4, max=10)
WaitMultiplier == 1
WaitMin == 4
WaitMax == 10

\* wait_exponential without the clamp to min.
wait_exponential_unclamped(attempt_number) ==
    PyMin(WaitMultiplier * 2 ^ (attempt_number - 1), WaitMax)

\* tenacity's wait_exponential.__call__: the seconds slept after the failed
\* attempt attempt_number, multiplier * 2^(attempt_number - 1) clamped to
\* min..max.
wait_exponential(attempt_number) ==
    PyMax(PyMax(0, WaitMin),
          PyMin(WaitMultiplier * 2 ^ (attempt_number - 1), WaitMax))

\* One attempt of get_wallet_balance: the balance read, or an exception.
get_wallet_balance_attempt(env) ==
    {[ok |-> TRUE, balance |-> b] : b \in env.balances}
        \cup (IF env.fails THEN {[ok |-> FALSE, balance |-> Float_0_0]} ELSE {})

get_pending_rewards(env) == env.rewards

\* get_wallet_info's except branch: the dict it returns when the balance
\* read has failed on every attempt.
wallet_info_fallback ==
    [balance |-> Float_0_0, pending_rewards |-> Float_0_0, error |-> TRUE]

\* stake_attempt with an except clause that re-raises, as the one of
\* get_wallet_balance does: a failed attempt reaches the retry decorator.
stake_attempt_reraising(wallet, env) ==
    { [raised |-> FALSE, tx |-> None, sent |-> 0, error |-> FALSE],
      [raised |-> FALSE, tx |-> TxHash("stake", wallet), sent |-> 1,
       error |-> FALSE],
      [raised |-> FALSE, tx |-> None, sent |-> 1, error |-> FALSE] }
    \cup
    (IF env.fails
     THEN { [raised |-> TRUE, tx |-> None, sent |-> 0, error |-> TRUE],
            [raised |-> TRUE, tx |-> None, sent |-> 1, error |-> TRUE] }
     ELSE {})

\* One attempt of execute_stake_operation.  sent counts the transactions
\* handed to send_raw_transaction; error says that a web3 call of the
\* attempt raised.  The except clause turns every exception into None, so
\* no attempt raises out of the function body.
stake_attempt(wallet, env) ==
    { [raised |-> FALSE, tx |-> None, sent |-> 0, error |-> FALSE],   \* gas price too high
      [raised |-> FALSE, tx |-> TxHash("stake", wallet), sent |-> 1,
       error |-> FALSE],                                              \* receipt.status == 1
      [raised |-> FALSE, tx |-> None, sent |-> 1, error |-> FALSE] }  \* receipt.status == 0
    \cup
    (IF env.fails
     THEN { [raised |-> FALSE, tx |-> None, sent |-> 0, error |-> TRUE],    \* building or sending raised
            [raised |-> FALSE, tx |-> None, sent |-> 1, error |-> TRUE] }   \* the wait for the receipt raised
     ELSE {})

\* The retry decorator around it: another attempt only after one that raised.
RECURSIVE stake_retrying(_, _, _, _, _)
stake_retrying(wallet, env, attempt, sent, errors) ==
    UNION { LET e == errors + (IF o.error THEN 1 ELSE 0)
            IN  IF o.raised /\ attempt < StopAfterAttempt
                THEN stake_retrying(wallet, env, attempt + 1, sent + o.sent, e)
                ELSE {[raised |-> o.raised, tx |-> o.tx, sent |-> sent + o.sent,
                       attempts |-> attempt, errors |-> e]}
          : o \in stake_attempt(wallet, env) }

execute_stake_operation(wallet, env) == stake_retrying(wallet, env, 1, 0, 0)

\* execute_auto_compound: reads the pending rewards again and sends only
\* above 0.1; every failure is None.
execute_auto_compound(wallet, env) ==
    {None} \cup
    (IF \E r \in get_pending_rewards(env) : FloatGt(r, Float_0_1)
     THEN {TxHash("compound", wallet)} ELSE {})

(***************************************************************************)
(* HeliosMultiBot.process_wallet_operations, one wallet task.              *)
(* A task record holds the coroutine's locals and its position.  The web3  *)
(* calls are synchronous, so a task yields to the event loop only in       *)
(* asyncio.sleep: the retry wait of get_wallet_balance, the pause after a  *)
(* stake, the pause at the end; and in semaphore.acquire.                  *)
(***************************************************************************)
NewResult(wallet) ==
    [wallet_id        |-> wallet,
     initial_balance  |-> Float_0_0,
     final_balance    |-> Float_0_0,
     stake_tx         |-> None,
     compound_tx      |-> None,
     stake_amount     |-> Float_0_0,
     compound_amount  |-> Float_0_0,
     status           |-> "pending",
     pending_rewards  |-> << >>,
     error            |-> FALSE]

NewTask(wallet) ==
    [wallet         |-> wallet,
     pc             |-> "start",
     phase          |-> "initial",
     attempt        |-> 0,
     wallet_info    |-> << >>,
     result         |-> NewResult(wallet),
     stake_calls    |-> << >>,     \* amounts passed to execute_stake_operation
     compound_calls |-> 0,         \* calls of execute_auto_compound
     sends          |-> 0,         \* stake transactions sent to the chain
     stake_attempts |-> 0,         \* attempts the stake call made
     stake_errors   |-> 0,         \* of which a web3 call raised
     exhausted      |-> {},        \* the reads whose three attempts all failed
     waits          |-> << >>,     \* seconds slept by the retry of the running balance read
     reads          |-> << >>]     \* the get_wallet_balance calls that have ended

Suspended(pc) ==
    pc \in {"start", "blocked", "retry_wait", "pause2", "pause1", "done", "raised"}

Terminal(pc) == pc \in {"done", "raised"}

\* Inside process_wallet_operations: holding a semaphore slot.
Inside(pc) == pc \notin {"start", "blocked", "done", "raised"}

\* except Exception as e: ...; raise
raise_in_try(s) ==
    [s EXCEPT !.pc = "raised", !.attempt = 0, !.waits = << >>,
              !.result.status = "error", !.result.error = TRUE]

\* After get_wallet_info has returned info.
after_wallet_info(s, info) ==
    IF s.phase = "initial"
    THEN [s EXCEPT !.wallet_info = << info >>,
                   !.attempt = 0,
                   !.result.initial_balance = info.balance,
                   !.result.pending_rewards = << info.pending_rewards >>,
                   !.pc = "decide_stake"]
    ELSE [s EXCEPT !.attempt = 0,
                   !.result.final_balance = info.balance,
                   !.result.status = "completed",
                   !.pc = "pause1"]

\* get_wallet_info: one attempt of the balance read under the retry policy.
get_wallet_info_step(s, env) ==
    { LET ended == [s EXCEPT !.waits = << >>,
                             !.reads = Append(@, [attempts |-> s.attempt,
                                                  ok       |-> a.ok,
                                                  balance  |-> a.balance,
                                                  waits    |-> s.waits])]
      IN  IF a.ok
          THEN after_wallet_info(ended, [balance |-> a.balance,
                                         pending_rewards |-> r,
                                         error |-> FALSE])
          ELSE IF s.attempt < StopAfterAttempt
               THEN [s EXCEPT !.pc = "retry_wait",
                              !.waits = Append(@, wait_exponential(s.attempt))]
               ELSE after_wallet_info([ended EXCEPT !.exhausted = @ \cup {s.phase}],
                                      wallet_info_fallback)
      : a \in get_wallet_balance_attempt(env),
        r \in IF s.phase = "initial" THEN get_pending_rewards(env) ELSE {Float_0_0} }

\* decide_stake staking from a balance of exactly 1.0 as well.
decide_stake_from_1_0(s) ==
    LET info == s.wallet_info[1]
        stake_amount == FloatMul(info.balance, Float_0_8)
    IN  IF ~FloatGt(Float_1_0, info.balance)
        THEN [s EXCEPT !.stake_calls = Append(@, stake_amount), !.pc = "stake"]
        ELSE [s EXCEPT !.pc = "decide_compound"]

\* decide_stake staking the whole balance instead of 80% of it.
decide_stake_whole_balance(s) ==
    LET info == s.wallet_info[1]
        stake_amount == info.balance
    IN  IF FloatGt(info.balance, Float_1_0)
        THEN [s EXCEPT !.stake_calls = Append(@, stake_amount), !.pc = "stake"]
        ELSE [s EXCEPT !.pc = "decide_compound"]

\* if wallet_info['balance'] > 1.0: stake 80% of the balance.
decide_stake(s) ==
    LET info == s.wallet_info[1]
        stake_amount == FloatMul(info.balance, Float_0_8)
    IN  IF FloatGt(info.balance, Float_1_0)
        THEN [s EXCEPT !.stake_calls = Append(@, stake_amount), !.pc = "stake"]
        ELSE [s EXCEPT !.pc = "decide_compound"]

\* stake_step recording the amount whatever execute_stake_operation returned.
stake_step_amount_always(s, env) ==
    { LET amount == s.stake_calls[Len(s.stake_calls)]
          t == [s EXCEPT !.sends = @ + o.sent, !.pc = "pause2",
                         !.stake_attempts = o.attempts,
                         !.stake_errors = o.errors,
                         !.result.stake_amount = amount]
      IN  IF o.tx # None
          THEN [t EXCEPT !.result.stake_tx = o.tx]
          ELSE t
      : o \in execute_stake_operation(s.wallet, env) }

\* stake_tx = await execute_stake_operation(wallet, stake_amount);
\* if stake_tx: record the hash and the amount.
stake_step(s, env) ==
    { LET amount == s.stake_calls[Len(s.stake_calls)]
          t == [s EXCEPT !.sends = @ + o.sent, !.pc = "pause2",
                         !.stake_attempts = o.attempts,
                         !.stake_errors = o.errors]
      IN  IF o.tx # None
          THEN [t EXCEPT !.result.stake_tx = o.tx, !.result.stake_amount = amount]
          ELSE t
      : o \in execute_stake_operation(s.wallet, env) }

\* if wallet_info.get('pending_rewards', 0) > 0.1: compound.
decide_compound(s) ==
    IF FloatGt(s.wallet_info[1].pending_rewards, Float_0_1)
    THEN [s EXCEPT !.compound_calls = @ + 1, !.pc = "compound"]
    ELSE [s EXCEPT !.phase = "final", !.attempt = 1, !.pc = "get_info"]

compound_step(s, env) ==
    { LET t == [s EXCEPT !.phase = "final", !.attempt = 1, !.pc = "get_info"]
      IN  IF tx # None
          THEN [t EXCEPT !.result.compound_tx = tx,
                         !.result.compound_amount = s.wallet_info[1].pending_rewards]
          ELSE t
      : tx \in execute_auto_compound(s.wallet, env) }

\* The positions of the try block at which an exception can surface.
MayRaise(s, env) ==
    IF env.faults /\ s.pc = "get_info"
    THEN {raise_in_try(s)} ELSE {}

\* One step of the coroutine from a position at which it is running.
process_wallet_operations_step(s, env) ==
    MayRaise(s, env) \cup
    CASE s.pc = "enter" ->
             {[s EXCEPT !.result = NewResult(s.wallet), !.phase = "initial",
                        !.attempt = 1, !.pc = "get_info"]}
      [] s.pc = "get_info" -> get_wallet_info_step(s, env)
      [] s.pc = "decide_stake" -> {decide_stake(s)}
      [] s.pc = "stake" -> stake_step(s, env)
      [] s.pc = "decide_compound" -> {decide_compound(s)}
      [] s.pc = "compound" -> compound_step(s, env)

\* The coroutine runs until it next yields to the event loop, or ends.
RECURSIVE run_until_suspended(_, _)
run_until_suspended(s, env) ==
    IF Suspended(s.pc) THEN {s}
    ELSE UNION { run_until_suspended(t, env)
                 : t \in process_wallet_operations_step(s, env) }

(***************************************************************************)
(* HeliosMultiBot.process_wallet_batch: the semaphore, gather, the fold.   *)
(***************************************************************************)
\* semaphore = asyncio.Semaphore(5)
SemaphoreLimit == 5

NewSemaphore == [value |-> SemaphoreLimit, waiters |-> << >>]

\* Nothing ever counts as locked: every task is let in.
locked_never(sem) == FALSE

\* Semaphore.locked(): no slot, or somebody already waits.
locked(sem) == sem.value = 0 \/ sem.waiters # << >>

acquire(sem) == [sem EXCEPT !.value = @ - 1]

\* release giving no slot back.
release_nothing(sem) == sem

release(sem) == [sem EXCEPT !.value = @ + 1]

\* The slot is given back only when the body returns, not when it raises.
async_with_exit_on_return(s, sem) ==
    IF s.pc = "done" THEN release(sem) ELSE sem

\* "async with semaphore": __aexit__ releases when the body of task state s
\* has ended, by return or by raise.
async_with_exit(s, sem) ==
    IF s.pc \in {"done", "raised"} THEN release(sem) ELSE sem

\* The results dict starting with processed at the batch number.
NewResults_from_batch_number(number) ==
    [batch_number         |-> number,
     processed            |-> number,
     successful_stakes    |-> 0,
     successful_compounds |-> 0,
     total_staked         |-> Float_0_0,
     total_compounded     |-> Float_0_0,
     errors               |-> 0,
     transactions         |-> << >>,
     wallet_details       |-> << >>,
     execution_time       |-> << >>]

NewResults(number) ==
    [batch_number         |-> number,
     processed            |-> 0,
     successful_stakes    |-> 0,
     successful_compounds |-> 0,
     total_staked         |-> Float_0_0,
     total_compounded     |-> Float_0_0,
     errors               |-> 0,
     transactions         |-> << >>,
     wallet_details       |-> << >>,
     execution_time       |-> << >>]

\* What gather(return_exceptions=True) holds for a task: the exception it
\* raised, or the dict it returned.
wallet_result(t) == [raised |-> t.pc = "raised", result |-> t.result]

\* The outcomes listed from the last task to the first.
wallet_results_reversed(tasks) ==
    [i \in DOMAIN tasks |-> wallet_result(tasks[Len(tasks) + 1 - i])]

\* wallet_results = await asyncio.gather(...): one outcome per task, in the
\* order of the tasks list.
wallet_results(tasks) == [i \in DOMAIN tasks |-> wallet_result(tasks[i])]

\* fold_result counting the stake and the compound of a raised task too.
fold_result_counting_raised(r, o) ==
    LET counted == [r EXCEPT !.processed = @ + 1]
        res     == o.result
        staked  == IF res.stake_tx # None
                   THEN [counted EXCEPT
                            !.successful_stakes = @ + 1,
                            !.total_staked = FloatAdd(@, res.stake_amount)]
                   ELSE counted
        compounded ==
                   IF res.compound_tx # None
                   THEN [staked EXCEPT
                            !.successful_compounds = @ + 1,
                            !.total_compounded = FloatAdd(@, res.compound_amount)]
                   ELSE staked
        summary == [wallet_id       |-> res.wallet_id,
                    stake_tx        |-> res.stake_tx,
                    compound_tx     |-> res.compound_tx,
                    stake_amount    |-> res.stake_amount,
                    compound_amount |-> res.compound_amount]
    IN  IF o.raised
        THEN [compounded EXCEPT !.errors = @ + 1]
        ELSE [compounded EXCEPT
                 !.wallet_details = Append(@, res),
                 !.transactions =
                     IF res.stake_tx # None \/ res.compound_tx # None
                     THEN Append(@, summary) ELSE @]

\* fold_result appending a transaction summary for every returned result.
fold_result_summary_always(r, o) ==
    LET counted == [r EXCEPT !.processed = @ + 1]
        res     == o.result
        staked  == IF res.stake_tx # None
                   THEN [counted EXCEPT
                            !.successful_stakes = @ + 1,
                            !.total_staked = FloatAdd(@, res.stake_amount)]
                   ELSE counted
        compounded ==
                   IF res.compound_tx # None
                   THEN [staked EXCEPT
                            !.successful_compounds = @ + 1,
                            !.total_compounded = FloatAdd(@, res.compound_amount)]
                   ELSE staked
        summary == [wallet_id       |-> res.wallet_id,
                    stake_tx        |-> res.stake_tx,
                    compound_tx     |-> res.compound_tx,
                    stake_amount    |-> res.stake_amount,
                    compound_amount |-> res.compound_amount]
    IN  IF o.raised
        THEN [counted EXCEPT !.errors = @ + 1]
        ELSE [compounded EXCEPT
                 !.wallet_details = Append(@, res),
                 !.transactions = Append(@, summary)]

\* fold_result without the continue of the exception branch: a raised task
\* is counted as an error and goes on to be listed in wallet_details.
fold_result_without_continue(r, o) ==
    LET counted == [r EXCEPT !.processed = @ + 1]
        res     == o.result
        failed  == IF o.raised THEN [counted EXCEPT !.errors = @ + 1] ELSE counted
        staked  == IF res.stake_tx # None
                   THEN [failed EXCEPT
                            !.successful_stakes = @ + 1,
                            !.total_staked = FloatAdd(@, res.stake_amount)]
                   ELSE failed
        compounded ==
                   IF res.compound_tx # None
                   THEN [staked EXCEPT
                            !.successful_compounds = @ + 1,
                            !.total_compounded = FloatAdd(@, res.compound_amount)]
                   ELSE staked
        summary == [wallet_id       |-> res.wallet_id,
                    stake_tx        |-> res.stake_tx,
                    compound_tx     |-> res.compound_tx,
                    stake_amount    |-> res.stake_amount,
                    compound_amount |-> res.compound_amount]
    IN  [compounded EXCEPT
            !.wallet_details = Append(@, res),
            !.transactions =
                IF res.stake_tx # None \/ res.compound_tx # None
                THEN Append(@, summary) ELSE @]

\* The body of "for i, result in enumerate(wallet_results)".
fold_result(r, o) ==
    LET counted == [r EXCEPT !.processed = @ + 1]
        res     == o.result
        staked  == IF res.stake_tx # None
                   THEN [counted EXCEPT
                            !.successful_stakes = @ + 1,
                            !.total_staked = FloatAdd(@, res.stake_amount)]
                   ELSE counted
        compounded ==
                   IF res.compound_tx # None
                   THEN [staked EXCEPT
                            !.successful_compounds = @ + 1,
                            !.total_compounded = FloatAdd(@, res.compound_amount)]
                   ELSE staked
        summary == [wallet_id       |-> res.wallet_id,
                    stake_tx        |-> res.stake_tx,
                    compound_tx     |-> res.compound_tx,
                    stake_amount    |-> res.stake_amount,
                    compound_amount |-> res.compound_amount]
    IN  IF o.raised
        THEN [counted EXCEPT !.errors = @ + 1]
        ELSE [compounded EXCEPT
                 !.wallet_details = Append(@, res),
                 !.transactions =
                     IF res.stake_tx # None \/ res.compound_tx # None
                     THEN Append(@, summary) ELSE @]

RECURSIVE aggregate(_, _)
aggregate(r, outcomes) ==
    IF outcomes = << >> THEN r
    ELSE aggregate(fold_result(r, Head(outcomes)), Tail(outcomes))

\* gather() returning as soon as one task has ended.
gather_returns_first(tasks) == \E i \in DOMAIN tasks : Terminal(tasks[i].pc)

\* await asyncio.gather(*tasks, return_exceptions=True) returns when every
\* task has returned or raised.
gather_returns(tasks) == \A i \in DOMAIN tasks : Terminal(tasks[i].pc)

(***************************************************************************)
(* HeliosMultiBot.generate_batch_report and print_batch_summary.           *)
(***************************************************************************)
\* Clock ticks per second: datetime.now() is finer than the file stamp.
TicksPerSecond == 2

\* datetime.now().strftime('%Y%m%d_%H%M%S'): whole seconds.
strftime(now) == now \div TicksPerSecond

report_file(number, now) ==
    [batch |-> number, kind |-> "stamped", stamp |-> strftime(now)]

latest_file(number) == [batch |-> number, kind |-> "latest", stamp |-> 0]

report_data(number, now, r) ==
    [batch_number   |-> number,
     timestamp      |-> now,
     summary        |-> [wallets_processed    |-> r.processed,
                         successful_stakes    |-> r.successful_stakes,
                         successful_compounds |-> r.successful_compounds,
                         total_staked_hls     |-> r.total_staked,
                         total_compounded_hls |-> r.total_compounded,
                         errors               |-> r.errors,
                         execution_time       |-> r.execution_time],
     transactions   |-> r.transactions,
     wallet_details |-> r.wallet_details]

\* open(name, 'w') and json.dump: the file is created or replaced.
write_file(fs, name, data) == (name :> data) @@ fs

\* The file system after generate_batch_report; io says which open() fails.
generate_batch_report(fs, number, now, r, io) ==
    LET data   == report_data(number, now, r)
        first  == write_file(fs, report_file(number, now), data)
        second == write_file(first, latest_file(number), data)
    IN  CASE io = "ok" -> second
          [] io = "latest_fails" -> first
          [] io = "stamped_fails" -> fs

\* What print_batch_summary prints.
summary_text(r) ==
    [batch                |-> r.batch_number,
     processed            |-> r.processed,
     successful_stakes    |-> r.successful_stakes,
     successful_compounds |-> r.successful_compounds,
     total_staked         |-> r.total_staked,
     total_compounded     |-> r.total_compounded,
     errors               |-> r.errors]

(***************************************************************************)
(* The wallet tasks under the event loop.                                  *)
(***************************************************************************)
\* Task i runs from local state s0 (the semaphore being sem0) until it next
\* yields; when it ends, returning or raising, "async with" frees its slot.
Advance(i, s0, sem0) ==
    \E s \in run_until_suspended(s0, provider[s0.wallet]) :
        /\ task' = [task EXCEPT ![i] = s]
        /\ semaphore' = async_with_exit(s, sem0)

TaskFrame ==
    UNCHANGED << all_wallets, total_batches, batch_number, shards, provider,
                 run_pc, batch_wallets, results, files, clock, stdout,
                 report_calls, samples, force_run >>

\* gather() starts the tasks in dispatch order; each first meets
\* "async with semaphore": it takes a slot, or queues up for one.
Start(i) ==
    /\ run_pc = "gather"
    /\ task[i].pc = "start"
    /\ \A j \in 1..(i - 1) : task[j].pc # "start"
    /\ IF ~locked(semaphore)
       THEN Advance(i, [task[i] EXCEPT !.pc = "enter"], acquire(semaphore))
       ELSE /\ task' = [task EXCEPT ![i].pc = "blocked"]
            /\ semaphore' = [semaphore EXCEPT !.waiters = Append(@, i)]
    /\ TaskFrame

\* A released slot goes to the waiter at the head of the queue.
Admit(i) ==
    /\ run_pc = "gather"
    /\ task[i].pc = "blocked"
    /\ semaphore.waiters # << >>
    /\ Head(semaphore.waiters) = i
    /\ semaphore.value > 0
    /\ Advance(i, [task[i] EXCEPT !.pc = "enter"],
               [acquire(semaphore) EXCEPT !.waiters = Tail(@)])
    /\ TaskFrame

\* The retry wait of get_wallet_balance is over: the next attempt.
RetryWake(i) ==
    /\ run_pc = "gather"
    /\ task[i].pc = "retry_wait"
    /\ Advance(i, [task[i] EXCEPT !.attempt = @ + 1, !.pc = "get_info"], semaphore)
    /\ TaskFrame

\* await asyncio.sleep(2) after the stake is over.
AfterStakePause(i) ==
    /\ run_pc = "gather"
    /\ task[i].pc = "pause2"
    /\ Advance(i, [task[i] EXCEPT !.pc = "decide_compound"], semaphore)
    /\ TaskFrame

\* await asyncio.sleep(1) is over: return result.
AfterWalletPause(i) ==
    /\ run_pc = "gather"
    /\ task[i].pc = "pause1"
    /\ Advance(i, [task[i] EXCEPT !.pc = "done"], semaphore)
    /\ TaskFrame

(***************************************************************************)
(* HeliosMultiBot.run_batch.                                               *)
(***************************************************************************)
RunFrame == UNCHANGED << all_wallets, total_batches, batch_number, shards, provider >>

\* sample_files of create_sample_wallet_files, in dict order.
SampleFiles == << "main_wallets.txt", "backup_wallets.txt" >>

\* create_sample_wallet_files writing over the files that exist.
create_sample_wallet_files_overwriting(dir, failing) ==
    LET write(d, k) ==
            IF d.raised THEN d
            ELSE IF failing = k THEN [d EXCEPT !.raised = TRUE]
            ELSE [d EXCEPT !.dir[SampleFiles[k]] = "sample"]
    IN  write(write([dir |-> dir, raised |-> FALSE], 1), 2)

\* WalletFileManager.create_sample_wallet_files: each sample file that does
\* not exist is opened for writing and filled; the open() of the
\* failing-th file raises (failing = 0: none does).
create_sample_wallet_files(dir, failing) ==
    LET write(d, k) ==
            IF d.raised \/ d.dir[SampleFiles[k]] # "absent" THEN d
            ELSE IF failing = k THEN [d EXCEPT !.raised = TRUE]
            ELSE [d EXCEPT !.dir[SampleFiles[k]] = "sample"]
    IN  write(write([dir |-> dir, raised |-> FALSE], 1), 2)

\* No wallet loaded: the sample files are created and the run returns, or
\* a write raises and run_batch logs and re-raises.
RunWithoutWallets ==
    /\ run_pc = "start"
    /\ all_wallets = << >>
    /\ \E failing \in 0..Len(SampleFiles) :
           LET made == create_sample_wallet_files(samples, failing)
           IN  /\ samples' = made.dir
               /\ run_pc' = IF made.raised THEN "samples_failed" ELSE "halted"
    /\ UNCHANGED << batch_wallets, task, semaphore, results, files, clock,
                    stdout, report_calls, force_run >>
    /\ RunFrame

\* The batch of this run is empty: the run returns.
RunEmptyBatch ==
    /\ run_pc = "start"
    /\ all_wallets # << >>
    /\ get_batch_wallets(all_wallets, batch_number, total_batches) = << >>
    /\ run_pc' = "no_wallets"
    /\ UNCHANGED << batch_wallets, task, semaphore, results, files, clock,
                    stdout, report_calls, samples, force_run >>
    /\ RunFrame

\* process_wallet_batch up to "await asyncio.gather(...)".
Dispatch ==
    /\ run_pc = "start"
    /\ all_wallets # << >>
    /\ LET batch == get_batch_wallets(all_wallets, batch_number, total_batches)
       IN  /\ batch # << >>
           /\ batch_wallets' = batch
           /\ task' = [i \in DOMAIN batch |-> NewTask(batch[i])]
    /\ results' = NewResults(batch_number)
    /\ semaphore' = NewSemaphore
    /\ run_pc' = "gather"
    /\ UNCHANGED << files, clock, stdout, report_calls, samples, force_run >>
    /\ RunFrame

\* gather() returns; the results are folded in dispatch order and timed.
Aggregate ==
    /\ run_pc = "gather"
    /\ gather_returns(task)
    /\ results' = [aggregate(results, wallet_results(task))
                      EXCEPT !.execution_time = << 0 >>]
    /\ run_pc' = "report"
    /\ UNCHANGED << batch_wallets, task, semaphore, files, clock, stdout,
                    report_calls, samples, force_run >>
    /\ RunFrame

\* await self.generate_batch_report(results): both files written, or an
\* open() raises and run_batch logs and re-raises.
GenerateReport ==
    /\ run_pc = "report"
    /\ \E io \in {"ok", "stamped_fails", "latest_fails"} :
        /\ files' = generate_batch_report(files, batch_number, clock, results, io)
        /\ run_pc' = IF io = "ok" THEN "summary" ELSE "failed"
        /\ report_calls' =
               IF io = "ok"
               THEN Append(report_calls,
                           [at |-> clock,
                            data |-> report_data(batch_number, clock, results)])
               ELSE report_calls
    /\ UNCHANGED << batch_wallets, task, semaphore, results, clock, stdout, samples, force_run >>
    /\ RunFrame

\* self.print_batch_summary(results)
PrintSummary ==
    /\ run_pc = "summary"
    /\ stdout' = Append(stdout, summary_text(results))
    /\ run_pc' = "done"
    /\ UNCHANGED << batch_wallets, task, semaphore, results, files, clock,
                    report_calls, samples, force_run >>
    /\ RunFrame

(***************************************************************************)
(* One run of the bot.  The batches it is run on: one wallet with any      *)
(* provider beside simple ones; more simple wallets than the semaphore has *)
(* slots; wallets that all stake.                                          *)
(***************************************************************************)
\* wallets/ holds no file of a sample's name, FORCE_RUN is not set.
NoSamples ==
    /\ samples = [f \in {SampleFiles[k] : k \in 1..Len(SampleFiles)} |-> "absent"]
    /\ force_run = FALSE

OneFile(n) == IF n = 0 THEN << >> ELSE << [i \in 1..n |-> i] >>

RunInit ==
    /\ shards = {}
    /\ run_pc = "start"
    /\ batch_wallets = << >>
    /\ task = << >>
    /\ semaphore = NewSemaphore
    /\ results = NewResults(batch_number)
    /\ files = << >>
    /\ clock = 0
    /\ stdout = << >>
    /\ report_calls = << >>

InitMixed ==
    /\ \E n \in 0..(1 + MaxCompanions) : all_wallets = OneFile(n)
    /\ total_batches = 1
    /\ batch_number \in 1..2
    /\ provider = [w \in 1..Len(Flatten(all_wallets)) |->
                      IF w = 1 THEN AnyProvider ELSE SimpleProvider]
    /\ IF all_wallets = << >>
       THEN /\ samples \in [{SampleFiles[k] : k \in 1..Len(SampleFiles)}
                               -> {"absent", "sample", "other"}]
            /\ force_run \in BOOLEAN
       ELSE NoSamples
    /\ RunInit

InitCrowd ==
    /\ all_wallets = OneFile(SemaphoreLimit + MaxExtra)
    /\ total_batches = 1
    /\ batch_number = 1
    /\ provider = [w \in 1..Len(Flatten(all_wallets)) |-> SimpleProvider]
    /\ NoSamples
    /\ RunInit

InitStakers ==
    /\ all_wallets = OneFile(MaxStakers)
    /\ total_batches = 1
    /\ batch_number = 1
    /\ provider = [w \in 1..Len(Flatten(all_wallets)) |-> FundedProvider(w)]
    /\ NoSamples
    /\ RunInit

Init == InitMixed \/ InitCrowd \/ InitStakers

Next ==
    \/ RunWithoutWallets
    \/ RunEmptyBatch
    \/ Dispatch
    \/ \E i \in DOMAIN task : Start(i)
    \/ \E i \in DOMAIN task : Admit(i)
    \/ \E i \in DOMAIN task : RetryWake(i)
    \/ \E i \in DOMAIN task : AfterStakePause(i)
    \/ \E i \in DOMAIN task : AfterWalletPause(i)
    \/ Aggregate
    \/ GenerateReport
    \/ PrintSummary

Spec == Init /\ [][Next]_vars

(***************************************************************************)
(* The event loop: a task that can run does run.  The waiter at the head   *)
(* of the semaphore's queue is woken by a release, a sleep ends, a started  *)
(* task reaches its first await, and gather() returns once every task has  *)
(* ended.                                                                  *)
(***************************************************************************)
TaskIds == 1..PyMax(PyMax(1 + MaxCompanions, SemaphoreLimit + MaxExtra), MaxStakers)

TaskStep(i) ==
    /\ i \in DOMAIN task
    /\ Start(i) \/ Admit(i) \/ RetryWake(i) \/ AfterStakePause(i) \/ AfterWalletPause(i)

EventLoop ==
    /\ \A i \in TaskIds : WF_vars(TaskStep(i))
    /\ WF_vars(Aggregate)

SpecFair == Init /\ [][Next]_vars /\ EventLoop

(***************************************************************************)
(* The partitioner over the sharded runs: main() is started once per       *)
(* --batch value, every run loading the same wallet files.                 *)
(***************************************************************************)
\* The wallets 1..n in one file, or split over two files.
WalletFiles(n) ==
    IF n = 0 THEN {<< >>}
    ELSE {OneFile(n)} \cup
         { << [i \in 1..k |-> i], [i \in 1..(n - k) |-> k + i] >> : k \in 1..(n - 1) }

FirstShard == 0 - MaxBatches
LastShard == total_batches + MaxBatches

InitPartition ==
    /\ \E n \in 0..MaxWallets : all_wallets \in WalletFiles(n)
    /\ total_batches \in 1..MaxBatches
    /\ batch_number = FirstShard
    /\ provider = << >>
    /\ NoSamples
    /\ RunInit

\* The run for --batch batch_number computes its slice.
RunShard ==
    /\ batch_number <= LastShard
    /\ shards' = shards \cup
           {[batch   |-> batch_number,
             wallets |-> get_batch_wallets(all_wallets, batch_number, total_batches)]}
    /\ batch_number' = batch_number + 1
    /\ UNCHANGED << all_wallets, total_batches, provider, run_pc, batch_wallets,
                    task, semaphore, results, files, clock, stdout,
                    report_calls, samples, force_run >>

NextPartition == RunShard

SpecPartition == InitPartition /\ [][NextPartition]_vars

(***************************************************************************)
(* Successive runs of the bot for one batch number, on one simple wallet:  *)
(* reports/ and the clock outlive a run.                                   *)
(***************************************************************************)
InitReports ==
    /\ all_wallets = OneFile(1)
    /\ total_batches = 1
    /\ batch_number = 1
    /\ provider = [w \in 1..1 |-> SimpleProvider]
    /\ NoSamples
    /\ RunInit

\* The bot is started again.
Rerun ==
    /\ run_pc \in {"done", "failed"}
    /\ Len(report_calls) < MaxReports
    /\ run_pc' = "start"
    /\ batch_wallets' = << >>
    /\ task' = << >>
    /\ semaphore' = NewSemaphore
    /\ results' = NewResults(batch_number)
    /\ UNCHANGED << files, clock, stdout, report_calls, samples, force_run >>
    /\ RunFrame

\* Time passes between two runs.
Tick ==
    /\ run_pc \in {"done", "failed"}
    /\ clock < MaxClock
    /\ clock' = clock + 1
    /\ UNCHANGED << all_wallets, total_batches, batch_number, shards, provider,
                    run_pc, batch_wallets, task, semaphore, results, files,
                    stdout, report_calls, samples, force_run >>

NextReports ==
    \/ Dispatch
    \/ \E i \in DOMAIN task : Start(i)
    \/ \E i \in DOMAIN task : AfterWalletPause(i)
    \/ Aggregate
    \/ GenerateReport
    \/ PrintSummary
    \/ Rerun
    \/ Tick

SpecReports == InitReports /\ [][NextReports]_vars

(***************************************************************************)
(* get_batch_wallets and process_wallet_batch called directly, on any      *)
(* wallet files, those without a wallet included, and any batch number.    *)
(***************************************************************************)
InitBatch ==
    /\ \E n \in 0..MaxBatchWallets :
           all_wallets \in WalletFiles(n) \cup (IF n = 0 THEN {<< << >> >>} ELSE {})
    /\ total_batches \in 1..MaxBatches
    /\ batch_number \in (0 - 1)..(total_batches + 1)
    /\ provider = [w \in 1..Len(Flatten(all_wallets)) |-> SimpleProvider]
    /\ NoSamples
    /\ RunInit

\* process_wallet_batch(get_batch_wallets(all_wallets)) up to
\* "await asyncio.gather(...)".
CallBatch ==
    /\ run_pc = "start"
    /\ LET batch == get_batch_wallets(all_wallets, batch_number, total_batches)
       IN  /\ batch_wallets' = batch
           /\ task' = [i \in DOMAIN batch |-> NewTask(batch[i])]
    /\ results' = NewResults(batch_number)
    /\ semaphore' = NewSemaphore
    /\ run_pc' = "gather"
    /\ UNCHANGED << files, clock, stdout, report_calls, samples, force_run >>
    /\ RunFrame

NextBatch ==
    \/ CallBatch
    \/ \E i \in DOMAIN task : Start(i)
    \/ \E i \in DOMAIN task : AfterWalletPause(i)
    \/ Aggregate

SpecBatch == InitBatch /\ [][NextBatch]_vars

(***************************************************************************)
(* Properties of the partitioner.                                          *)
(***************************************************************************)
Range(seq) == {seq[i] : i \in DOMAIN seq}

ShardsComputed == \A b \in 1..total_batches : \E r \in shards : r.batch = b

ShardWallets(b) == (CHOOSE r \in shards : r.batch = b).wallets

RECURSIVE ConcatShards(_)
ConcatShards(b) ==
    IF b = 0 THEN << >> ELSE ConcatShards(b - 1) \o ShardWallets(b)

\* slice is a contiguous run of flat.
IsRun(slice, flat) ==
    \E k \in 0..Len(flat) :
        /\ k + Len(slice) <= Len(flat)
        /\ slice = SubSeq(flat, k + 1, k + Len(slice))

\* C1: once the runs for batch numbers 1..total_batches have computed their
\* slices, the slices are pairwise disjoint, each is a contiguous run of the
\* flattened wallet sequence, and joined in batch order they are that
\* sequence; 7 wallets in 3 batches give sizes 3, 3, 1, the last slice being
\* the 7th wallet.
C1_PartitionCovers ==
    ShardsComputed =>
        LET flat == Flatten(all_wallets)
        IN  /\ ConcatShards(total_batches) = flat
            /\ \A b \in 1..total_batches : IsRun(ShardWallets(b), flat)
            /\ \A b, c \in 1..total_batches :
                   b # c => Range(ShardWallets(b)) \cap Range(ShardWallets(c)) = {}
            /\ (Len(flat) = 7 /\ total_batches = 3) =>
                   /\ Len(ShardWallets(1)) = 3
                   /\ Len(ShardWallets(2)) = 3
                   /\ ShardWallets(3) = << flat[7] >>

C1_Witness ==
    /\ ShardsComputed
    /\ Len(Flatten(all_wallets)) = 7
    /\ total_batches = 3
    /\ ShardWallets(3) = << 7 >>

(***************************************************************************)
(* Properties of a batch run.                                              *)
(***************************************************************************)
\* gather() has returned and the results have been folded.
Folded == run_pc \in {"report", "summary", "done", "failed"}

RaisedTasks == {i \in DOMAIN task : task[i].pc = "raised"}
ReturnedTasks == {i \in DOMAIN task : task[i].pc = "done"}
InsideTasks == {i \in DOMAIN task : Inside(task[i].pc)}

TaskNext ==
    \E i \in DOMAIN task :
        Start(i) \/ Admit(i) \/ RetryWake(i) \/ AfterStakePause(i) \/ AfterWalletPause(i)

\* C2: when a wallet task has raised, the other tasks go on (some task can
\* always take its next step until all have ended), and the folded result
\* counts every task: each has ended, each returned result is in
\* wallet_details, each raised one is one error.
C2_FailureIsolation ==
    RaisedTasks # {} =>
        /\ (run_pc = "gather" /\ ~gather_returns(task)) => ENABLED TaskNext
        /\ Folded =>
              /\ \A j \in DOMAIN task : Terminal(task[j].pc)
              /\ \A j \in ReturnedTasks :
                     task[j].result \in Range(results.wallet_details)
              /\ results.processed = Len(task)
              /\ results.errors = Cardinality(RaisedTasks)

C2_Witness ==
    /\ Folded
    /\ RaisedTasks # {}
    /\ \E j \in ReturnedTasks : task[j].result \in Range(results.wallet_details)

\* C3: at most 5 wallet tasks are inside process_wallet_operations at once.
C3_ConcurrencyBound == Cardinality(InsideTasks) <= 5

C3_Witness ==
    /\ Cardinality(InsideTasks) = 5
    /\ \E i \in DOMAIN task : task[i].pc = "blocked"

\* C4: a wallet whose first state fetch failed on all 3 attempts is marked
\* error, is counted as one error (its task raised), and has no entry in
\* wallet_details.
C4_ExhaustedFetchIsError ==
    Folded =>
        \A i \in DOMAIN task :
            "initial" \in task[i].exhausted =>
                /\ task[i].result.status = "error"
                /\ i \in RaisedTasks
                /\ \A k \in DOMAIN results.wallet_details :
                       results.wallet_details[k].wallet_id # task[i].wallet

\* The results folded in the order given by the permutation p.
Reordered(p) == [k \in DOMAIN task |-> wallet_result(task[p[k]])]

StakeAmounts(details) ==
    [k \in {j \in DOMAIN details : details[j].stake_tx # None}
        |-> details[k].stake_amount]

\* C5: total_staked is the sum of stake_amount over the results with a
\* stake_tx, successful_stakes <= processed, and the total is the same in
\* whichever order the same outcomes are folded.
C5_TotalStakedAnyOrder ==
    run_pc = "report" =>
        /\ results.successful_stakes <= results.processed
        /\ results.successful_stakes =
               Cardinality(DOMAIN StakeAmounts(results.wallet_details))
        /\ \A p \in Permutations(DOMAIN task) :
               aggregate(NewResults(batch_number), Reordered(p)).total_staked
                   = results.total_staked

StampedFiles == {f \in DOMAIN files : f.kind = "stamped"}
LatestFiles == {f \in DOMAIN files : f.kind = "latest"}

\* C6: after two reports for one batch number there is one latest file,
\* holding the second report, and two stamped files, the first of which
\* still holds the first report.
C6_TwoReportsTwoFiles ==
    Len(report_calls) = 2 =>
        /\ LatestFiles = {latest_file(batch_number)}
        /\ files[latest_file(batch_number)] = report_calls[2].data
        /\ Cardinality(StampedFiles) = 2
        /\ files[report_file(batch_number, report_calls[1].at)] = report_calls[1].data

\* C7: when writing the report has failed, the summary of the computed
\* result has still been printed.
C7_SummaryDespiteWriteFailure ==
    run_pc = "failed" => stdout = << summary_text(results) >>

\* C8: the free slots and the tasks inside process_wallet_operations add up
\* to 5 at all times (one slot taken per task entering, one given back per
\* task ending, returned or raised), the free slots stay within 0..5, and
\* all 5 are free once the batch has finished.
C8_SlotAccounting ==
    /\ semaphore.value + Cardinality(InsideTasks) = 5
    /\ semaphore.value \in 0..5
    /\ Folded => semaphore.value = 5

C8_Witness ==
    /\ Folded
    /\ RaisedTasks # {}
    /\ ReturnedTasks # {}
    /\ semaphore.value = 5

\* C9: nothing is folded into the results, no report is written and no
\* summary is printed before every wallet task of the batch has ended.
C9_FoldAfterJoin ==
    (Folded \/ results.processed > 0 \/ DOMAIN files # {} \/ stdout # << >>) =>
        /\ task # << >>
        /\ \A i \in DOMAIN task : Terminal(task[i].pc)

C9_Witness ==
    /\ run_pc = "done"
    /\ Len(task) >= 2
    /\ DOMAIN files # {}
    /\ stdout # << >>

\* C10: once the first fetch has returned, execute_stake_operation has been
\* called exactly when the fetched balance is above 1.0, with 80% of it
\* (1.6 for 2.0, nothing for 1.0); once the task is past the compound
\* decision, execute_auto_compound has been called exactly when the fetched
\* pending rewards are above 0.1.
C10_StakeAndCompoundThresholds ==
    \A i \in DOMAIN task :
        task[i].wallet_info # << >> =>
            LET info == task[i].wallet_info[1]
            IN  /\ task[i].stake_calls =
                       IF FloatGt(info.balance, Float_1_0)
                       THEN << FloatMul(info.balance, Float_0_8) >> ELSE << >>
                /\ info.balance = Float_2_0 => task[i].stake_calls = << Float_1_6 >>
                /\ info.balance = Float_1_0 => task[i].stake_calls = << >>
                /\ task[i].phase = "final" =>
                       task[i].compound_calls =
                           IF FloatGt(info.pending_rewards, Float_0_1) THEN 1 ELSE 0

C10_Witness ==
    \E i \in DOMAIN task :
        /\ task[i].pc = "done"
        /\ task[i].wallet_info # << >>
        /\ task[i].wallet_info[1].balance = Float_2_0
        /\ task[i].wallet_info[1].pending_rewards = Float_0_05
        /\ task[i].stake_calls = << Float_1_6 >>
        /\ task[i].compound_calls = 0

\* The task's stake call has returned None.
StakeDeclined(t) == t.stake_calls # << >> /\ t.result.stake_tx = None

\* seq without its i-th element.
Without(seq, i) == SubSeq(seq, 1, i - 1) \o SubSeq(seq, i + 1, Len(seq))

\* C11: a wallet whose stake call returned None keeps stake_tx null and
\* stake_amount 0; it ends completed when it returns, and on an endpoint
\* where no exception escapes it always returns; in the folded result it is
\* no error and adds nothing to successful_stakes or total_staked (folding
\* without it gives the same three values).
C11_DeclinedStakeNotAnError ==
    \A i \in DOMAIN task :
        StakeDeclined(task[i]) =>
            /\ task[i].result.stake_amount = Float_0_0
            /\ task[i].pc = "done" => task[i].result.status = "completed"
            /\ (~provider[task[i].wallet].faults /\ Terminal(task[i].pc))
                   => task[i].pc = "done"
            /\ (Folded /\ task[i].pc = "done") =>
                   LET rest == aggregate(NewResults(batch_number),
                                         Without(wallet_results(task), i))
                   IN  /\ rest.errors = results.errors
                       /\ rest.successful_stakes = results.successful_stakes
                       /\ rest.total_staked = results.total_staked

C11_Witness ==
    /\ Folded
    /\ \E i, j \in DOMAIN task :
           /\ StakeDeclined(task[i])
           /\ task[i].pc = "done"
           /\ task[i].result.status = "completed"
           /\ task[j].result.stake_tx # None
           /\ results.successful_stakes >= 1

\* C12: a stake call in which a web3 call raised has been attempted again,
\* at most 3 times in all, and when every attempt raised the call has
\* failed with an error: the task has raised and no None came back.
C12_StakeErrorRetried ==
    \A i \in DOMAIN task :
        task[i].stake_errors > 0 =>
            /\ task[i].stake_attempts \in 2..3
            /\ task[i].stake_errors = task[i].stake_attempts =>
                   /\ task[i].stake_attempts = 3
                   /\ task[i].pc = "raised"

NonDecreasing(seq) == \A k \in 1..(Len(seq) - 1) : seq[k] <= seq[k + 1]

\* The balance a task's k-th get_wallet_info left in the result.
BalanceTaken(t, k) ==
    IF k = 1 THEN t.result.initial_balance ELSE t.result.final_balance

\* C13: a get_wallet_balance call makes at most 3 attempts, one wait
\* between two consecutive attempts, each wait within 4..10 and none
\* shorter than the one before; a call that succeeded returned the value of
\* its last attempt (the first that succeeded), and a call failed only with
\* its 3rd attempt.
C13_BalanceRetryPolicy ==
    \A i \in DOMAIN task :
        /\ task[i].pc = "retry_wait" =>
               /\ task[i].attempt \in 1..2
               /\ Len(task[i].waits) = task[i].attempt
               /\ \A k \in DOMAIN task[i].waits : task[i].waits[k] \in 4..10
               /\ NonDecreasing(task[i].waits)
        /\ \A k \in DOMAIN task[i].reads :
               LET read == task[i].reads[k]
               IN  /\ read.attempts \in 1..3
                   /\ Len(read.waits) = read.attempts - 1
                   /\ \A n \in DOMAIN read.waits : read.waits[n] \in 4..10
                   /\ NonDecreasing(read.waits)
                   /\ ~read.ok => read.attempts = 3
                   /\ (read.ok /\ (k = 1 \/ task[i].pc \in {"pause1", "done"}))
                          => BalanceTaken(task[i], k) = read.balance

C13_Witness ==
    \E i \in DOMAIN task :
        /\ Len(task[i].reads) = 2
        /\ task[i].reads[1].ok
        /\ task[i].reads[1].attempts = 3
        /\ task[i].reads[1].waits = << 4, 4 >>
        /\ ~task[i].reads[2].ok

NoCredentials == Flatten(all_wallets) = << >>

\* C14: with no credential at all, get_batch_wallets gives the empty
\* sequence for every batch number, and process_wallet_batch on an empty
\* batch returns all counters and totals zero and both lists empty.
C14_EmptyInEmptyOut ==
    /\ NoCredentials =>
           /\ \A number \in FirstShard..LastShard :
                  get_batch_wallets(all_wallets, number, total_batches) = << >>
           /\ run_pc # "start" => batch_wallets = << >>
    /\ (run_pc = "report" /\ batch_wallets = << >>) =>
           /\ results.processed = 0
           /\ results.successful_stakes = 0
           /\ results.successful_compounds = 0
           /\ results.total_staked = Float_0_0
           /\ results.total_compounded = Float_0_0
           /\ results.errors = 0
           /\ results.transactions = << >>
           /\ results.wallet_details = << >>

C14_Witness ==
    /\ NoCredentials
    /\ batch_number = 2
    /\ run_pc = "report"
    /\ results.processed = 0

SampleNames == {SampleFiles[k] : k \in 1..Len(SampleFiles)}

\* run_batch has found no wallet and has ended.
EndedWithoutCredentials == all_wallets = << >> /\ run_pc # "start"

\* C15 as stated: a run that finds no credentials halts without raising,
\* with the sample files written, no wallet task dispatched and no report
\* file, with FORCE_RUN set or not.
C15_NoCredentialsHalts ==
    EndedWithoutCredentials =>
        /\ run_pc = "halted"
        /\ \A f \in SampleNames : samples[f] = "sample"
        /\ task = << >>
        /\ DOMAIN files = {}

\* C15 amended: a run that finds no credentials dispatches no wallet task
\* and writes no report file, with FORCE_RUN set or not; it writes each
\* sample file that does not exist yet and leaves a file that exists as it
\* is; it halts without raising, all sample file names then existing,
\* unless the write of a sample file fails, which run_batch re-raises.
C15_NoCredentialsHaltsAmended ==
    /\ [](EndedWithoutCredentials =>
             /\ run_pc \in {"halted", "samples_failed"}
             /\ task = << >>
             /\ batch_wallets = << >>
             /\ DOMAIN files = {}
             /\ stdout = << >>
             /\ run_pc = "halted" => \A f \in SampleNames : samples[f] # "absent"
             /\ run_pc = "samples_failed" => \E f \in SampleNames : samples[f] = "absent")
    /\ [][\A f \in SampleNames :
             /\ samples[f] # "absent" => samples'[f] = samples[f]
             /\ samples'[f] \in {samples[f], "sample"}]_vars

C15_Witness ==
    /\ all_wallets = << >>
    /\ run_pc = "halted"
    /\ force_run
    /\ samples["main_wallets.txt"] = "other"
    /\ samples["backup_wallets.txt"] = "sample"

\* C16: once generate_batch_report has returned, the payload has the
\* top-level fields batch_number, timestamp, summary, transactions and
\* wallet_details, its summary has the fields wallets_processed,
\* successful_stakes, successful_compounds, total_staked, total_compounded,
\* errors and execution_time with the values of the results, and the
\* stamped and the latest file hold the same payload.
C16_PayloadShape ==
    run_pc \in {"summary", "done"} =>
        LET data == files[latest_file(batch_number)]
        IN  /\ files[report_file(batch_number, clock)] = data
            /\ DOMAIN data = {"batch_number", "timestamp", "summary",
                               "transactions", "wallet_details"}
            /\ DOMAIN data.summary =
                   {"wallets_processed", "successful_stakes",
                    "successful_compounds", "total_staked", "total_compounded",
                    "errors", "execution_time"}
            /\ data.batch_number = batch_number
            /\ data.transactions = results.transactions
            /\ data.wallet_details = results.wallet_details
            /\ data.summary.wallets_processed = results.processed
            /\ data.summary.successful_stakes = results.successful_stakes
            /\ data.summary.successful_compounds = results.successful_compounds
            /\ data.summary.total_staked = results.total_staked
            /\ data.summary.total_compounded = results.total_compounded
            /\ data.summary.errors = results.errors
            /\ data.summary.execution_time = results.execution_time

\* C17: a task in which an exception was raised has ended raised, its
\* result marked error, and the fold counts it as one error and nothing
\* else: folding without it gives one error and one processed less, and the
\* same wallet_details, transactions, stake and compound counters and
\* totals; no entry of either list is this wallet's.
C17_RaisedCountsOneError ==
    \A i \in RaisedTasks :
        /\ task[i].result.status = "error"
        /\ Folded =>
               LET rest == aggregate(NewResults(batch_number),
                                     Without(wallet_results(task), i))
               IN  /\ results.errors = rest.errors + 1
                   /\ results.processed = rest.processed + 1
                   /\ results.wallet_details = rest.wallet_details
                   /\ results.transactions = rest.transactions
                   /\ results.successful_stakes = rest.successful_stakes
                   /\ results.successful_compounds = rest.successful_compounds
                   /\ results.total_staked = rest.total_staked
                   /\ results.total_compounded = rest.total_compounded
                   /\ \A k \in DOMAIN results.wallet_details :
                          results.wallet_details[k].wallet_id # task[i].wallet
                   /\ \A k \in DOMAIN results.transactions :
                          results.transactions[k].wallet_id # task[i].wallet

\* A task that raised after its stake had succeeded, beside one that returned.
C17_Witness ==
    /\ Folded
    /\ \E i \in RaisedTasks : task[i].result.stake_tx # None
    /\ ReturnedTasks # {}
    /\ results.errors = 1
    /\ results.successful_stakes = 0

\* The task has been inside process_wallet_operations and has ended.
AdmittedAndEnded(t) ==
    /\ Terminal(t.pc)
    /\ t.result.status \in {"completed", "error"}

\* C18: once the wallet tasks of a batch are dispatched, process_wallet_batch
\* eventually returns, every task having been let in by the semaphore and
\* having ended, and nobody left waiting for a slot.
C18_BatchTerminates ==
    (run_pc = "gather") ~>
        (/\ run_pc = "report"
         /\ \A i \in DOMAIN task : AdmittedAndEnded(task[i])
         /\ semaphore.waiters = << >>)

\* A batch larger than the semaphore has been processed to the end.
C18_Witness ==
    /\ run_pc = "report"
    /\ Len(task) > SemaphoreLimit
    /\ \A i \in DOMAIN task : Terminal(task[i].pc)
    /\ semaphore.waiters = << >>

\* The positions of wallet w in a list of results or summaries.
EntriesOf(list, w) == {k \in DOMAIN list : list[k].wallet_id = w}

\* C19: after the fold, transactions holds a summary of a wallet exactly
\* when the wallet returned a result with stake_tx or compound_tx set, at
\* most one per wallet, each with the wallet_id, hashes and amounts of that
\* wallet's entry in wallet_details; so transactions is no longer than
\* wallet_details.
C19_TransactionSummaries ==
    Folded =>
        /\ \A i \in DOMAIN task :
               LET res  == task[i].result
                   sums == EntriesOf(results.transactions, task[i].wallet)
                   dets == EntriesOf(results.wallet_details, task[i].wallet)
               IN  /\ Cardinality(sums) <= 1
                   /\ sums # {} <=>
                          /\ task[i].pc = "done"
                          /\ res.stake_tx # None \/ res.compound_tx # None
                   /\ \A k \in sums :
                          \E d \in dets :
                              LET sum == results.transactions[k]
                                  det == results.wallet_details[d]
                              IN  /\ sum.stake_tx = det.stake_tx
                                  /\ sum.compound_tx = det.compound_tx
                                  /\ sum.stake_amount = det.stake_amount
                                  /\ sum.compound_amount = det.compound_amount
                                  /\ det = res
        /\ \A k \in DOMAIN results.transactions :
               \E i \in DOMAIN task :
                   results.transactions[k].wallet_id = task[i].wallet
        /\ Len(results.transactions) <= Len(results.wallet_details)

\* One wallet staked and compounded, another returned without a transaction.
C19_Witness ==
    /\ Folded
    /\ Len(results.wallet_details) = 2
    /\ Len(results.transactions) = 1
    /\ results.transactions[1].stake_tx # None
    /\ results.transactions[1].compound_tx # None

\* The place of wallet w in the batch.
PlaceInBatch(w) == CHOOSE k \in DOMAIN batch_wallets : batch_wallets[k] = w

\* The entries of the list are in the order of the batch.
InBatchOrder(list) ==
    \A j, k \in DOMAIN list :
        j < k => PlaceInBatch(list[j].wallet_id) < PlaceInBatch(list[k].wallet_id)

\* C20: the fold takes each outcome once, in dispatch order: processed is
\* the number of tasks, wallet_details lists the returned wallets and
\* transactions the summaries in the order of the batch, however the tasks
\* were interleaved and in whatever order they ended.
C20_FoldInDispatchOrder ==
    Folded =>
        /\ results.processed = Len(batch_wallets)
        /\ Len(results.wallet_details) = Cardinality(ReturnedTasks)
        /\ InBatchOrder(results.wallet_details)
        /\ InBatchOrder(results.transactions)
        /\ \A i \in ReturnedTasks :
               results.wallet_details[Cardinality({j \in ReturnedTasks : j <= i})]
                   = task[i].result

\* Three wallets returned, the first without a transaction, the other two
\* with one each.
C20_Witness ==
    /\ Folded
    /\ Len(results.wallet_details) = 3
    /\ Len(results.transactions) = 2
    /\ results.transactions[1].wallet_id = 2
    /\ results.transactions[2].wallet_id = 3

\* C21: after the fold every dispatched wallet is counted exactly once:
\* processed is the size of the batch and equals len(wallet_details) plus
\* errors; a wallet that returned has one entry in wallet_details and is no
\* error, a wallet that raised is one error and has no entry.
C21_CountedExactlyOnce ==
    Folded =>
        /\ results.processed = Len(batch_wallets)
        /\ results.processed = Len(results.wallet_details) + results.errors
        /\ results.errors = Cardinality(RaisedTasks)
        /\ DOMAIN task = RaisedTasks \cup ReturnedTasks
        /\ \A i \in DOMAIN task :
               Cardinality(EntriesOf(results.wallet_details, task[i].wallet))
                   = IF i \in RaisedTasks THEN 0 ELSE 1

\* A batch of two wallets folded: one returned, the other raised.
C21_Witness ==
    /\ Folded
    /\ results.processed = 2
    /\ results.errors = 1
    /\ Len(results.wallet_details) = 1

\* C22: every entry of wallet_details has status completed, and its
\* stake_tx is set exactly when its stake_amount is greater than 0; then
\* stake_amount is initial_balance * 0.8 and initial_balance is greater
\* than 1.0.
C22_DetailEntriesConsistent ==
    Folded =>
        \A k \in DOMAIN results.wallet_details :
            LET d == results.wallet_details[k]
            IN  /\ d.status = "completed"
                /\ d.stake_tx # None <=> FloatGt(d.stake_amount, Float_0_0)
                /\ d.stake_tx # None =>
                       /\ d.stake_amount = FloatMul(d.initial_balance, Float_0_8)
                       /\ FloatGt(d.initial_balance, Float_1_0)

\* Two entries with a balance above 1.0: one staked, the other's stake
\* came back None.
C22_Witness ==
    /\ Folded
    /\ \E j, k \in DOMAIN results.wallet_details :
           /\ results.wallet_details[j].stake_tx # None
           /\ results.wallet_details[j].stake_amount = Float_1_6
           /\ results.wallet_details[k].stake_tx = None
           /\ FloatGt(results.wallet_details[k].initial_balance, Float_1_0)

\* C23: for a batch_number outside 1..total_batches (zero, negative or
\* greater than total_batches) get_batch_wallets returns an empty sequence.
C23_OutOfRangeBatchEmpty ==
    \A r \in shards :
        r.batch \notin 1..total_batches => r.wallets = << >>

\* C24: within one batch run at most one stake transaction is sent to the
\* chain for each wallet of the batch, whatever the provider does:
\* execute_stake_operation is called at most once for a wallet and makes one
\* attempt, also when the transaction was sent and its confirmation failed
\* or timed out.
C24_AtMostOneStakeSent ==
    \A i \in DOMAIN task :
        /\ task[i].sends <= 1
        /\ Len(task[i].stake_calls) <= 1
        /\ task[i].stake_attempts <= 1
        /\ task[i].sends <= task[i].stake_attempts

\* A stake transaction was sent, the wait for its receipt raised, and the
\* wallet has returned without a stake hash.
C24_Witness ==
    \E i \in ReturnedTasks :
        /\ task[i].sends = 1
        /\ task[i].stake_errors = 1
        /\ task[i].result.stake_tx = None

====
